---- MODULE Spec2Model ----
(***************************************************************************)
(* Seamless Stitcher: the stitching engine (services/imageService,         *)
(* stitchImages) and the React component that drives it (App.tsx).         *)
(*                                                                         *)
(* JavaScript numbers are modelled as exact non-negative rationals plus    *)
(* the two IEEE specials the code can produce, Infinity and NaN.           *)
(* Event-loop tasks (timer, image load, FileReader, fetch) are the         *)
(* actions; everything a task runs synchronously, together with the        *)
(* promise continuations (microtasks) it triggers, is one atomic step.     *)
(***************************************************************************)
EXTENDS Integers, Sequences, FiniteSets, TLC

\* ---------------------------------------------------------------- bounds
MaxImages == 3
MaxWidth == 2
MaxHeight == 2
MaxCalls == 2
MaxUploads == 2
MaxListUploads == 5

\* images, isProcessing, result: the state of App; calls: the invocations
\* of stitchImages; objectUrls: the object URLs allocated and not revoked.
\* nextId numbers the uploads and uploadsLeft caps them.  Two history
\* variables: removedIds, the ids taken out of the list so far, and
\* completions, the order in which the decodes of each call settled (kept
\* only in the behaviours that start with completions.kept).
VARIABLES images, isProcessing, result, nextId, calls, objectUrls,
          uploadsLeft, removedIds, completions

vars == <<images, isProcessing, result, nextId, calls, objectUrls,
          uploadsLeft, removedIds, completions>>

\* the variables no step of stitchImages touches
appVars == <<images, nextId, uploadsLeft, removedIds>>

Calls == 1..MaxCalls
Widths == 0..MaxWidth
Heights == 1..MaxHeight

\* ------------------------------------------------- JavaScript numbers
RECURSIVE GCD(_, _)
GCD(a, b) == IF b = 0 THEN a ELSE GCD(b, a % b)

Num(n, d) == [k |-> "fin", n |-> n \div GCD(n, d), d |-> d \div GCD(n, d)]
Whole(n) == [k |-> "fin", n |-> n, d |-> 1]
Infinity == [k |-> "inf", n |-> 0, d |-> 1]
NaN == [k |-> "nan", n |-> 0, d |-> 1]

\* a / b for non-negative integers a, b (IEEE: x/0 is Infinity, 0/0 is NaN)
Div(a, b) ==
  IF b = 0 THEN (IF a = 0 THEN NaN ELSE Infinity) ELSE Num(a, b)

\* h * x for a non-negative integer h (IEEE: 0 * Infinity is NaN)
Mul(h, x) ==
  CASE x.k = "fin" -> Num(h * x.n, x.d)
    [] x.k = "inf" -> IF h = 0 THEN NaN ELSE Infinity
    [] OTHER -> NaN

Add(x, y) ==
  CASE x.k = "nan" \/ y.k = "nan" -> NaN
    [] x.k = "inf" \/ y.k = "inf" -> Infinity
    [] OTHER -> Num(x.n * y.d + y.n * x.d, x.d * y.d)

\* Math.round: nearest integer, halves up; Infinity and NaN are kept
MathRound(x) ==
  IF x.k = "fin" THEN Whole((2 * x.n + x.d) \div (2 * x.d)) ELSE x

\* WebIDL conversion to unsigned long (canvas.width, canvas.height):
\* NaN and Infinity become 0, anything else is truncated toward zero (the
\* reduction modulo 2^32 that follows is the identity on the sizes modelled)
ToUnsignedLong(x) ==
  IF x.k = "fin" THEN x.n \div x.d ELSE 0

\* ------------------------------------------------------------- values
NoCanvas == [created |-> FALSE, width |-> 0, height |-> 0]
NoData == [pixels |-> [canvas |-> NoCanvas, drawn |-> <<>>], exif |-> "none"]
NoUrl == <<"none", 0, 0>>
Null == [url |-> NoUrl, blob |-> NoData, width |-> 0, height |-> Whole(0)]

IdleCall ==
  [pc |-> "idle", via |-> "none", input |-> <<>>, loads |-> <<>>,
   targetWidth |-> 0, totalHeight |-> Whole(0), imageDrawData |-> <<>>,
   canvas |-> NoCanvas, drawn |-> <<>>,
   stitchedDataUrl |-> NoData, finalDataUrl |-> NoData,
   exifObj |-> "none", exifStep |-> "none",
   dumpCalled |-> FALSE, insertCalled |-> FALSE,
   result |-> Null, error |-> "none"]

\* the App after its first render, no stitchImages call made
Mounted ==
  /\ images = <<>>
  /\ isProcessing = FALSE
  /\ result = Null
  /\ nextId = 1
  /\ calls = [c \in Calls |-> IdleCall]
  /\ objectUrls = {}
  /\ removedIds = {}

NoCompletions(kept) == [kept |-> kept, order |-> [c \in Calls |-> <<>>]]

Init ==
  /\ Mounted
  /\ uploadsLeft = MaxUploads
  /\ completions = NoCompletions(FALSE)

\* ------------------------------------------- stitchImages: the layout
\* A File is modelled by what decoding it yields: the naturalWidth and
\* naturalHeight of its HTMLImageElement.  An UploadedImage is [id, file].
Files == [naturalWidth : Widths, naturalHeight : Heights]

TargetWidthOfLast(loadedImages) ==
  loadedImages[Len(loadedImages)].naturalWidth

TargetWidth(loadedImages) == loadedImages[1].naturalWidth

ScaleFactor(targetWidth, img) == Div(targetWidth, img.naturalWidth)

ScaledHeightRounded(targetWidth, img) ==
  MathRound(Mul(img.naturalHeight, ScaleFactor(targetWidth, img)))

ScaledHeight(targetWidth, img) ==
  Mul(img.naturalHeight, ScaleFactor(targetWidth, img))

ImageDrawData(loadedImages) ==
  [i \in 1..Len(loadedImages) |->
     [img |-> i,
      scaledHeight |-> ScaledHeight(TargetWidth(loadedImages), loadedImages[i]),
      scaleFactor |-> ScaleFactor(TargetWidth(loadedImages), loadedImages[i])]]

InitialTotalHeightKept(c) ==
  IF c > 1 THEN calls[c - 1].totalHeight ELSE Whole(0)

\* let totalHeight = 0
InitialTotalHeight(c) == Whole(0)

\* the value of an accumulator started at `start` after adding the scaled
\* heights of the first k elements (totalHeight in the map, currentY in
\* the forEach)
RECURSIVE Accumulate(_, _, _)
Accumulate(start, data, k) ==
  IF k = 0 THEN start
  ELSE Add(Accumulate(start, data, k - 1), data[k].scaledHeight)

\* height: Math.round(totalHeight)
ResultHeight(totalHeight) == MathRound(totalHeight)

\* canvas.width = targetWidth; canvas.height = totalHeight
CreateCanvas(targetWidth, totalHeight) ==
  [created |-> TRUE,
   width |-> ToUnsignedLong(Whole(targetWidth)),
   height |-> ToUnsignedLong(totalHeight)]

DrawImagesAtTop(targetWidth, data) ==
  [i \in 1..Len(data) |->
     [img |-> data[i].img, x |-> 0, y |-> Whole(0),
      w |-> targetWidth, h |-> data[i].scaledHeight]]

\* the drawImage calls of the forEach, in call order
DrawImages(targetWidth, data) ==
  [i \in 1..Len(data) |->
     [img |-> data[i].img, x |-> 0, y |-> Accumulate(Whole(0), data, i - 1),
      w |-> targetWidth, h |-> data[i].scaledHeight]]

\* canvas.toDataURL("image/jpeg", 1.0): the encoded image, no metadata
ToDataURL(canvas, drawn) ==
  [pixels |-> [canvas |-> canvas, drawn |-> drawn], exif |-> "none"]

\* ------------------------------------- stitchImages: start and decoding
ImgUrl(c, i) == <<"img", c, i>>
ResultUrl(c) == <<"result", c, 0>>

IsEmptyInputUnchecked(uploadedImages) == FALSE

\* if (uploadedImages.length === 0) throw
IsEmptyInput(uploadedImages) == Len(uploadedImages) = 0

\* stitchImages up to its first await: the empty check, then one loadImage
\* per input (new Image, URL.createObjectURL, img.src = url)
StartCall(call, uploadedImages, via) ==
  IF IsEmptyInput(uploadedImages)
  THEN [call EXCEPT !.pc = "rejected", !.via = via, !.input = uploadedImages,
                    !.error = "No images to stitch"]
  ELSE [call EXCEPT !.pc = "loading", !.via = via, !.input = uploadedImages,
                    !.loads = [i \in 1..Len(uploadedImages) |-> "pending"]]

StartUrls(c, uploadedImages) ==
  IF IsEmptyInput(uploadedImages) THEN {}
  ELSE {ImgUrl(c, i) : i \in 1..Len(uploadedImages)}

\* Promise.all: the array of resolved images, by input index
LoadedImages(call) == [i \in 1..Len(call.input) |-> call.input[i].file]

AnyLoaded(loads) == \E i \in 1..Len(loads) : loads[i] = "loaded"

\* Promise.all resolves once every loadImage promise has resolved
AllLoaded(loads) == \A i \in 1..Len(loads) : loads[i] = "loaded"

\* steps 2-5 of stitchImages, run when Promise.all resolves: layout,
\* canvas, drawing, toDataURL; ctx is whether getContext('2d') gave one
Compose(c, call, ctx) ==
  LET loadedImages == LoadedImages(call)
      targetWidth == TargetWidth(loadedImages)
      data == ImageDrawData(loadedImages)
      totalHeight == Accumulate(InitialTotalHeight(c), data, Len(data))
      canvas == CreateCanvas(targetWidth, totalHeight)
      laid == [call EXCEPT !.targetWidth = targetWidth,
                           !.totalHeight = totalHeight,
                           !.imageDrawData = data,
                           !.canvas = canvas]
      drawn == DrawImages(targetWidth, data)
  IN IF ~ctx
     THEN [laid EXCEPT !.pc = "rejected",
                       !.error = "Could not get canvas context"]
     ELSE [laid EXCEPT !.pc = "reading",
                       !.drawn = drawn,
                       !.stitchedDataUrl = ToDataURL(canvas, drawn),
                       !.finalDataUrl = ToDataURL(canvas, drawn)]

SettleWithoutFinally(c, call) ==
  /\ calls' = [calls EXCEPT ![c] = call]
  /\ IF call.via = "app" /\ call.pc = "done"
     THEN /\ isProcessing' = FALSE
          /\ result' = call.result
     ELSE UNCHANGED <<isProcessing, result>>

\* what the await in handleStitch's timer callback does once the call has
\* settled: setResult(res) on success, the alert on failure, and
\* setIsProcessing(false) in the finally
Settle(c, call) ==
  /\ calls' = [calls EXCEPT ![c] = call]
  /\ IF call.via = "app" /\ call.pc \in {"done", "rejected"}
     THEN /\ isProcessing' = FALSE
          /\ result' = IF call.pc = "done" THEN call.result ELSE result
     ELSE UNCHANGED <<isProcessing, result>>

AfterLoadErrorIgnored(call, i) == [call EXCEPT !.loads[i] = "failed"]

\* img.onerror = reject: Promise.all rejects and the await throws
AfterLoadError(call, i) ==
  [call EXCEPT !.loads[i] = "failed", !.pc = "rejected", !.error = "decode"]

\* img.onload: resolve(img); the call goes on once all have resolved
AfterLoad(c, call, i, ctx) ==
  LET next == [call EXCEPT !.loads[i] = "loaded"]
  IN IF AllLoaded(next.loads) THEN Compose(c, next, ctx) ELSE next

Completed(log, c, i) ==
  IF log.kept THEN [log EXCEPT !.order[c] = Append(@, i)] ELSE log

LoadSettle(c, i) ==
  /\ calls[c].pc = "loading"
  /\ i \in 1..Len(calls[c].loads)
  /\ calls[c].loads[i] = "pending"
  /\ \E ok \in BOOLEAN, ctx \in BOOLEAN :
       Settle(c, IF ok THEN AfterLoad(c, calls[c], i, ctx)
                 ELSE AfterLoadError(calls[c], i))
  /\ completions' = Completed(completions, c, i)
  /\ UNCHANGED <<appVars, objectUrls>>

\* ------------------------------------------- stitchImages: the EXIF step
\* What piexif.load may hand back: an object with tags, an object whose
\* IFDs are all empty, null, or a non-object such as the empty string.
ExifObjs == {"tags", "empty", "null", "string"}
LoadOutcomes == ExifObjs \cup {"throw"}

\* typeof exifObj === 'object' (typeof null is 'object' too)
ShouldInject(exifObj) == exifObj \in {"tags", "empty", "null"}

\* piexif.insert(exifBytes, jpeg): the same image with the segment spliced in
Insert(exifObj, dataUrl) == [dataUrl EXCEPT !.exif = exifObj]

OnExifErrorRethrown(call, step) ==
  [call EXCEPT !.exifStep = step, !.pc = "rejected", !.error = "exif"]

\* both catch blocks only log; the call goes on to step 7
OnExifError(call, step) == [call EXCEPT !.exifStep = step, !.pc = "fetching"]

\* step 6, run when the FileReader settles.  readOk: reader.onload (not
\* onerror); piexif: window.piexif is there; load: what piexif.load does;
\* dumpOk, insertOk: piexif.dump / piexif.insert return instead of throwing
\* (dump reads the IFDs of its argument, so it throws on null)
Transplant(call, readOk, piexif, load, dumpOk, insertOk) ==
  IF ~readOk THEN OnExifError(call, "readFailed")
  ELSE IF ~piexif THEN [call EXCEPT !.exifStep = "noPiexif", !.pc = "fetching"]
  ELSE IF load = "throw" THEN OnExifError(call, "loadThrew")
  ELSE IF ~ShouldInject(load)
       THEN [call EXCEPT !.exifObj = load, !.exifStep = "skipped",
                         !.pc = "fetching"]
  ELSE IF ~dumpOk \/ load = "null"
       THEN OnExifError([call EXCEPT !.exifObj = load, !.dumpCalled = TRUE],
                        "dumpThrew")
  ELSE IF ~insertOk
       THEN OnExifError([call EXCEPT !.exifObj = load, !.dumpCalled = TRUE,
                                     !.insertCalled = TRUE], "insertThrew")
  ELSE [call EXCEPT !.exifObj = load, !.dumpCalled = TRUE,
                    !.insertCalled = TRUE, !.exifStep = "inserted",
                    !.finalDataUrl = Insert(load, call.stitchedDataUrl),
                    !.pc = "fetching"]

ReadSettle(c) ==
  /\ calls[c].pc = "reading"
  /\ \E readOk \in BOOLEAN, piexif \in BOOLEAN, load \in LoadOutcomes,
        dumpOk \in BOOLEAN, insertOk \in BOOLEAN :
       Settle(c, Transplant(calls[c], readOk, piexif, load, dumpOk, insertOk))
  /\ UNCHANGED <<appVars, objectUrls, completions>>

\* ------------------------------------ stitchImages: blob, cleanup, return
\* the StitchResult returned
MakeResult(c, call) ==
  [blob |-> call.finalDataUrl, url |-> ResultUrl(c),
   width |-> call.targetWidth, height |-> ResultHeight(call.totalHeight)]

\* loadedImages.forEach(img => URL.revokeObjectURL(img.src))
Cleanup(c, call, urls) == urls \ {ImgUrl(c, i) : i \in 1..Len(call.input)}

\* step 7 and the return, run when the data URL has been fetched and read
\* as a blob (await fetch, await res.blob(): either may reject), then
\* createObjectURL, the cleanup and the return
BlobSettle(c) ==
  /\ calls[c].pc = "fetching"
  /\ \/ /\ Settle(c, [calls[c] EXCEPT !.pc = "done",
                                      !.result = MakeResult(c, calls[c])])
        /\ objectUrls' = Cleanup(c, calls[c], objectUrls \cup {ResultUrl(c)})
     \/ /\ Settle(c, [calls[c] EXCEPT !.pc = "rejected", !.error = "blob"])
        /\ UNCHANGED objectUrls
  /\ UNCHANGED <<appVars, completions>>

EngineNext ==
  \E c \in Calls :
     \/ \E i \in 1..MaxImages : LoadSettle(c, i)
     \/ ReadSettle(c)
     \/ BlobSettle(c)

\* --------------------------------------------- a caller of stitchImages
Inputs ==
  UNION {[1..n -> [id : {0}, file : Files]] : n \in 0..MaxImages}

\* some caller invokes the exported stitchImages on an ordered input
NotYetInvoked == \A c \in Calls : calls[c].pc = "idle"

Invoke(uploadedImages) ==
  /\ NotYetInvoked
  /\ calls' = [calls EXCEPT ![1] = StartCall(calls[1], uploadedImages, "direct")]
  /\ objectUrls' = objectUrls \cup StartUrls(1, uploadedImages)
  /\ UNCHANGED <<appVars, isProcessing, result, completions>>

\* the caller invokes it again on the same input, while the earlier
\* invocation is running or after it has settled
Reinvoke(c) ==
  /\ c > 1
  /\ calls[c].pc = "idle"
  /\ calls[c - 1].pc # "idle"
  /\ calls[c - 1].via = "direct"
  /\ calls' = [calls EXCEPT ![c] = StartCall(calls[c], calls[c - 1].input, "direct")]
  /\ objectUrls' = objectUrls \cup StartUrls(c, calls[c - 1].input)
  /\ UNCHANGED <<appVars, isProcessing, result, completions>>

\* ------------------------------------------------------------ App.tsx
PreviewUrl(id) == <<"preview", id, 0>>

\* the first call record not yet used: the next stitchImages invocation
FreeCall(c) ==
  /\ calls[c].pc = "idle"
  /\ \A b \in Calls : b < c => calls[b].pc # "idle"

\* files.map(file => ({id, file, previewUrl, ...})), ids being fresh
NewImages(files, firstId) ==
  [i \in 1..Len(files) |-> [id |-> firstId + i - 1, file |-> files[i]]]

\* the ImageUploader hands over a non-empty list of image files
HandleFilesSelected(files) ==
  /\ Len(files) > 0
  /\ Len(images) + Len(files) <= MaxImages
  /\ Len(files) <= uploadsLeft
  /\ images' = images \o NewImages(files, nextId)
  /\ nextId' = nextId + Len(files)
  /\ uploadsLeft' = uploadsLeft - Len(files)
  /\ objectUrls' = objectUrls \cup
                      {PreviewUrl(nextId + i - 1) : i \in 1..Len(files)}
  /\ result' = Null
  /\ UNCHANGED <<isProcessing, calls, removedIds, completions>>

Filter(seq, id) == SelectSeq(seq, LAMBDA u : u.id # id)

RemoveImage(id) ==
  /\ \E i \in 1..Len(images) : images[i].id = id
  /\ images' = Filter(images, id)
  /\ objectUrls' = objectUrls \ {PreviewUrl(id)}
  /\ result' = Null
  /\ removedIds' = removedIds \cup {id}
  /\ UNCHANGED <<isProcessing, nextId, uploadsLeft, calls, completions>>

\* the early return of moveImage
AtEdge(index, direction, imgs) ==
  \/ direction = "up" /\ index = 0
  \/ direction = "down" /\ index = Len(imgs) - 1

SwappedOverwriting(imgs, index, direction) ==
  LET targetIndex == IF direction = "up" THEN index - 1 ELSE index + 1
  IN [imgs EXCEPT ![index + 1] = imgs[targetIndex + 1]]

\* index is 0-based, as in the code; sequences here are 1-based
Swapped(imgs, index, direction) ==
  LET targetIndex == IF direction = "up" THEN index - 1 ELSE index + 1
  IN [imgs EXCEPT ![index + 1] = imgs[targetIndex + 1],
                  ![targetIndex + 1] = imgs[index + 1]]

MoveImage(index, direction) ==
  /\ index \in 0..(Len(images) - 1)
  /\ IF AtEdge(index, direction, images)
     THEN UNCHANGED vars
     ELSE /\ images' = Swapped(images, index, direction)
          /\ result' = Null
          /\ UNCHANGED <<isProcessing, nextId, uploadsLeft, removedIds,
                          calls, objectUrls, completions>>

\* if (images.length === 0) return
NothingToStitch(imgs) == Len(imgs) = 0

\* setIsProcessing(true) and setTimeout(..., 100) with the images of this
\* render captured by the callback
HandleStitch ==
  IF NothingToStitch(images)
  THEN UNCHANGED vars
  ELSE /\ \E c \in Calls :
            /\ FreeCall(c)
            /\ calls' = [calls EXCEPT ![c] =
                           [@ EXCEPT !.pc = "timer", !.via = "app",
                                     !.input = images]]
       /\ isProcessing' = TRUE
       /\ UNCHANGED <<appVars, result, objectUrls, completions>>

\* the timer callback up to its await: stitchImages(images) is called
TimerFire(c) ==
  /\ calls[c].pc = "timer"
  /\ Settle(c, StartCall(calls[c], calls[c].input, "app"))
  /\ objectUrls' = objectUrls \cup StartUrls(c, calls[c].input)
  /\ UNCHANGED <<appVars, completions>>

ClearAll ==
  \E confirmed \in BOOLEAN :
     IF confirmed
     THEN /\ objectUrls' = objectUrls \
                              {PreviewUrl(images[i].id) : i \in 1..Len(images)}
          /\ images' = <<>>
          /\ result' = Null
          /\ removedIds' = removedIds \cup
                              {images[i].id : i \in 1..Len(images)}
          /\ UNCHANGED <<isProcessing, nextId, uploadsLeft, calls,
                          completions>>
     ELSE UNCHANGED vars

\* the files the user picks in the App: one decodable kind is enough
\* there, the images of a list being told apart by their ids
Selectable == {f \in Files : f.naturalWidth = 1 /\ f.naturalHeight = 1}

AppNext ==
  \/ (uploadsLeft > 0
      /\ \E files \in UNION {[1..n -> Selectable] : n \in 1..MaxUploads} :
            HandleFilesSelected(files))
  \/ \E id \in 1..MaxUploads : RemoveImage(id)
  \/ \E index \in 0..(MaxImages - 1), direction \in {"up", "down"} :
        MoveImage(index, direction)
  \/ HandleStitch
  \/ \E c \in Calls : TimerFire(c)
  \/ ClearAll

Next == AppNext \/ EngineNext

Spec == Init /\ [][Next]_vars

\* the engine under a direct caller, beside an App whose list is empty
StitchNext ==
  \/ (NotYetInvoked /\ \E uploadedImages \in Inputs : Invoke(uploadedImages))
  \/ HandleStitch
  \/ EngineNext

SpecStitch == Init /\ [][StitchNext]_vars

TwiceNext ==
  \/ (NotYetInvoked /\ \E uploadedImages \in Inputs : Invoke(uploadedImages))
  \/ \E c \in Calls : Reinvoke(c)
  \/ EngineNext

SpecTwice == Init /\ [][TwiceNext]_vars

\* the same caller, the order in which the decodes settle being kept
InitOrder ==
  /\ Mounted
  /\ uploadsLeft = MaxUploads
  /\ completions = NoCompletions(TRUE)

SpecOrder == InitOrder /\ [][StitchNext]_vars

\* the App's list alone, edited at length: more uploads, no stitching
InitList ==
  /\ Mounted
  /\ uploadsLeft = MaxListUploads
  /\ completions = NoCompletions(FALSE)

ListNext ==
  \/ (uploadsLeft > 0
      /\ \E files \in UNION {[1..n -> Selectable] : n \in 1..MaxImages} :
            HandleFilesSelected(files))
  \/ \E id \in 1..MaxListUploads : RemoveImage(id)
  \/ \E index \in 0..(MaxImages - 1), direction \in {"up", "down"} :
        MoveImage(index, direction)
  \/ ClearAll

SpecList == InitList /\ [][ListNext]_vars

\* the App when the event loop delivers what is pending: a timer that
\* has been set fires, and a decode, a FileReader or a fetch that has been
\* started settles
Delivered == EngineNext \/ \E c \in Calls : TimerFire(c)

SpecLive == Init /\ [][Next]_vars /\ WF_vars(Delivered)

\* ====================================================== the claims
PositiveWidths(call) ==
  \A i \in 1..Len(call.input) : call.input[i].file.naturalWidth > 0

\* C1: the width of the StitchResult is the natural width of the image at
\* index 0 of the input, whatever the other images are.
C1_WidthOfFirst ==
  \A c \in Calls :
     /\ calls[c].canvas.created =>
          calls[c].targetWidth = calls[c].input[1].file.naturalWidth
     /\ calls[c].pc = "done" =>
          calls[c].result.width = calls[c].input[1].file.naturalWidth

C1_Witness ==
  \E c \in Calls :
     /\ calls[c].pc = "done"
     /\ Len(calls[c].input) = 3
     /\ calls[c].input[2].file.naturalWidth > calls[c].input[1].file.naturalWidth
     /\ calls[c].input[3].file.naturalWidth # calls[c].input[1].file.naturalWidth
     /\ calls[c].result.width = calls[c].input[1].file.naturalWidth

\* the exact sum of h[i] * tw / w[i] over a common denominator, the
\* product of the widths: numerator and denominator
RECURSIVE WidthProduct(_, _)
WidthProduct(input, k) ==
  IF k = 0 THEN 1 ELSE WidthProduct(input, k - 1) * input[k].file.naturalWidth

RECURSIVE HeightNumerator(_, _)
HeightNumerator(input, k) ==
  IF k = 0 THEN 0
  ELSE HeightNumerator(input, k - 1)
       + input[k].file.naturalHeight * input[1].file.naturalWidth
         * (WidthProduct(input, Len(input)) \div input[k].file.naturalWidth)

RoundedExactHeight(input) ==
  (2 * HeightNumerator(input, Len(input)) + WidthProduct(input, Len(input)))
    \div (2 * WidthProduct(input, Len(input)))

\* C2: the height of the StitchResult is the exact sum of
\* naturalHeight[i] * targetWidth / naturalWidth[i], rounded to the nearest
\* integer once, at the end (widths positive, so that the sum is defined).
C2_HeightRoundedOnce ==
  \A c \in Calls :
     (calls[c].pc = "done" /\ PositiveWidths(calls[c])) =>
        calls[c].result.height = Whole(RoundedExactHeight(calls[c].input))

\* two images with fractional scaled heights: rounding each would differ
C2_Witness ==
  \E c \in Calls :
     /\ calls[c].pc = "done"
     /\ PositiveWidths(calls[c])
     /\ \E i, j \in 1..Len(calls[c].input) :
          /\ i # j
          /\ calls[c].imageDrawData[i].scaledHeight.d > 1
          /\ calls[c].imageDrawData[j].scaledHeight.d > 1
     /\ calls[c].result.height = Whole(RoundedExactHeight(calls[c].input))

\* C3 (as claimed): the canvas that is composited and encoded has the
\* dimensions reported, targetWidth x round(totalHeight), also when
\* totalHeight is not an integer (widths positive, as the Decoder promises).
C3_CanvasHeightIsReported ==
  \A c \in Calls :
     (calls[c].pc = "done" /\ PositiveWidths(calls[c])) =>
        /\ calls[c].canvas.width = calls[c].result.width
        /\ Whole(calls[c].canvas.height) = calls[c].result.height

\* C4: when the metadata transplant does not complete, the call is not
\* failed by it (it goes on to the blob conversion, the only thing that can
\* still reject it) and the bytes it returns are the encoder's output.
TransplantIncomplete(call) == call.exifStep \notin {"none", "inserted"}

C4_MetadataNeverFails ==
  \A c \in Calls :
     TransplantIncomplete(calls[c]) =>
        /\ calls[c].finalDataUrl = calls[c].stitchedDataUrl
        /\ calls[c].pc \in {"fetching", "done", "rejected"}
        /\ calls[c].pc = "rejected" => calls[c].error = "blob"
        /\ calls[c].pc = "done" =>
             calls[c].result.blob = calls[c].stitchedDataUrl

C4_Witness ==
  \E c \in Calls :
     /\ calls[c].pc = "done"
     /\ calls[c].exifStep = "insertThrew"
     /\ calls[c].exifObj = "tags"
     /\ calls[c].result.blob = calls[c].stitchedDataUrl

\* C5 (as claimed): when the block extracted from the first source is empty
\* or absent, nothing is serialized or spliced and the final bytes are the
\* encoded output.
EmptyOrAbsentBlock(call) == call.exifObj \in {"empty", "null", "string"}

C5_EmptyBlockSkipped ==
  \A c \in Calls :
     EmptyOrAbsentBlock(calls[c]) =>
        /\ ~calls[c].dumpCalled
        /\ ~calls[c].insertCalled
        /\ calls[c].finalDataUrl = calls[c].stitchedDataUrl

\* C6: a decode failure of any one image fails the whole stitch: the call is
\* rejected, nothing is laid out, composited or returned, and the App's
\* result does not come from that call.
DecodeFailed(call) == \E i \in 1..Len(call.loads) : call.loads[i] = "failed"

C6_DecodeFailureAborts ==
  \A c \in Calls :
     DecodeFailed(calls[c]) =>
        /\ calls[c].pc = "rejected"
        /\ ~calls[c].canvas.created
        /\ calls[c].drawn = <<>>
        /\ calls[c].stitchedDataUrl = NoData
        /\ calls[c].result = Null
        /\ ResultUrl(c) \notin objectUrls
        /\ result.url # ResultUrl(c)

\* the second image fails after the first has loaded, in a call of the App
C6_Witness ==
  \E c \in Calls :
     /\ calls[c].via = "app"
     /\ Len(calls[c].loads) = 2
     /\ calls[c].loads[1] = "loaded"
     /\ calls[c].loads[2] = "failed"
     /\ calls[c].pc = "rejected"
     /\ ~isProcessing

\* C7: stitchImages on an empty input fails with the empty-input error
\* before any decode is started and produces nothing; handleStitch on an
\* empty list starts no stitch and leaves isProcessing and result alone.
EmptyInputRejected(c) ==
  /\ calls[c].pc = "rejected"
  /\ calls[c].error = "No images to stitch"
  /\ calls[c].loads = <<>>
  /\ \A i \in 1..MaxImages : ImgUrl(c, i) \notin objectUrls
  /\ ~calls[c].canvas.created
  /\ calls[c].result = Null

C7_EmptyInput ==
  /\ [](\A c \in Calls :
          (calls[c].pc \notin {"idle", "timer"} /\ Len(calls[c].input) = 0)
             => EmptyInputRejected(c))
  /\ [][(HandleStitch /\ Len(images) = 0) =>
          (isProcessing' = isProcessing /\ result' = result /\ calls' = calls)]_vars

C7_Witness ==
  \E c \in Calls :
     /\ calls[c].pc = "rejected"
     /\ calls[c].error = "No images to stitch"
     /\ Len(images) = 0
     /\ ~isProcessing

\* C8 (as claimed): no canvas larger than the pixel budget is allocated; the
\* compositing step fails with an allocation error instead.
PixelBudget == 8

C8_PixelBudget ==
  \A c \in Calls :
     /\ calls[c].canvas.created =>
          calls[c].canvas.width * calls[c].canvas.height <= PixelBudget
     /\ (calls[c].totalHeight.k = "fin"
         /\ calls[c].targetWidth * MathRound(calls[c].totalHeight).n > PixelBudget)
          => (calls[c].pc = "rejected" /\ calls[c].error = "AllocationError")

\* C9: two invocations on the same ordered input, one after the other or
\* overlapping, compute the same target width, scaled heights, offsets and
\* output dimensions, and a step of one leaves the other's state alone.
SameLayout(a, b) ==
  /\ a.targetWidth = b.targetWidth
  /\ a.imageDrawData = b.imageDrawData
  /\ a.totalHeight = b.totalHeight
  /\ a.canvas = b.canvas
  /\ (a.drawn # <<>> /\ b.drawn # <<>>) =>
        (a.drawn = b.drawn /\ a.stitchedDataUrl.pixels = b.stitchedDataUrl.pixels)
  /\ (a.pc = "done" /\ b.pc = "done") =>
        (a.result.width = b.result.width /\ a.result.height = b.result.height
         /\ a.result.blob.pixels = b.result.blob.pixels)

C10_ZeroWidthRejected ==
  \A c \in Calls :
     (~PositiveWidths(calls[c]) /\ AllLoaded(calls[c].loads)
      /\ calls[c].pc # "loading") =>
        /\ calls[c].pc = "rejected"
        /\ calls[c].error = "InvariantViolation"
        /\ calls[c].imageDrawData = <<>>
        /\ ~calls[c].canvas.created

\* C11: images are drawn in ascending input index, each at the target width
\* and its own scaled height, at the sum of the scaled heights before it:
\* the bands start at 0, touch, and end at the unrounded total height
\* (widths positive).  The example 800x600, 400x400, 1600x400 is stated
\* with heights 600, 200, 800 at 0, 600, 800; scaled to width 800 the
\* images are 600, 800 and 200 high, at 0, 600 and 1400.
ExactScaledHeight(input, i) ==
  Num(input[i].file.naturalHeight * input[1].file.naturalWidth,
      input[i].file.naturalWidth)

ContiguousBands(call) ==
  LET n == Len(call.input)
  IN /\ Len(call.drawn) = n
     /\ call.drawn[1].y = Whole(0)
     /\ \A i \in 1..n :
          /\ call.drawn[i].img = i
          /\ call.drawn[i].x = 0
          /\ call.drawn[i].w = call.input[1].file.naturalWidth
          /\ call.drawn[i].h = ExactScaledHeight(call.input, i)
          /\ i < n => call.drawn[i + 1].y = Add(call.drawn[i].y, call.drawn[i].h)
     /\ Add(call.drawn[n].y, call.drawn[n].h) = call.totalHeight

ExampleImages ==
  <<[naturalWidth |-> 800, naturalHeight |-> 600],
    [naturalWidth |-> 400, naturalHeight |-> 400],
    [naturalWidth |-> 1600, naturalHeight |-> 400]>>

ExampleLayout(heights, offsets) ==
  LET data == ImageDrawData(ExampleImages)
      drawn == DrawImages(TargetWidth(ExampleImages), data)
  IN /\ TargetWidth(ExampleImages) = 800
     /\ [i \in 1..3 |-> drawn[i].h] = [i \in 1..3 |-> Whole(heights[i])]
     /\ [i \in 1..3 |-> drawn[i].y] = [i \in 1..3 |-> Whole(offsets[i])]
     /\ ResultHeight(Accumulate(Whole(0), data, 3)) = Whole(1600)

AllBandsContiguous ==
  \A c \in Calls :
     (calls[c].drawn # <<>> /\ PositiveWidths(calls[c])) =>
        ContiguousBands(calls[c])

\* C11 as claimed, with the example's heights 600, 200, 800 at 0, 600, 800
C11_ExampleAsStated ==
  /\ ExampleLayout(<<600, 200, 800>>, <<0, 600, 800>>)
  /\ AllBandsContiguous

\* C11 as amended: the example's heights are 600, 800, 200 at 0, 600, 1400
C11_ContiguousBands ==
  /\ ExampleLayout(<<600, 800, 200>>, <<0, 600, 1400>>)
  /\ AllBandsContiguous

\* three bands, the third starting at a fractional offset
C11_Witness ==
  \E c \in Calls :
     /\ calls[c].pc = "done"
     /\ PositiveWidths(calls[c])
     /\ Len(calls[c].drawn) = 3
     /\ calls[c].drawn[3].y.d > 1
     /\ ContiguousBands(calls[c])


\* C13 (as claimed): a result URL that is still allocated backs the result
\* on display; once the App has reset or replaced a result, its object URL
\* has been revoked.
Settled(call) == call.pc \in {"done", "rejected"}

C13_ResultUrlReleased ==
  \A c \in Calls :
     (calls[c].via = "app" /\ ResultUrl(c) \in objectUrls) =>
        result.url = ResultUrl(c)

\* C14 (as claimed): a result on display was computed from exactly the
\* current image list, also when the list was edited while the stitch was
\* pending in its timer or in flight.
C14_ResultOfCurrentList ==
  result # Null =>
     \E c \in Calls :
        /\ calls[c].pc = "done"
        /\ result = calls[c].result
        /\ calls[c].input = images

\* C16 (as claimed): once a call has settled, fulfilled or rejected, none of
\* the object URLs it created to decode its sources is still allocated.
C16_DecodeUrlsRevoked ==
  \A c \in Calls :
     Settled(calls[c]) =>
        \A i \in 1..Len(calls[c].input) : ImgUrl(c, i) \notin objectUrls


\* C12: whatever the order in which the decodes of a call complete, the
\* layout is made only once every decode has completed, the target width
\* is that of input index 0, and the k-th image placed and drawn is the
\* k-th image of the input.
LaidOutByIndex(call) ==
  LET input == call.input
  IN /\ call.targetWidth = input[1].file.naturalWidth
     /\ Len(call.imageDrawData) = Len(input)
     /\ \A k \in 1..Len(input) :
          /\ call.imageDrawData[k].img = k
          /\ call.imageDrawData[k].scaleFactor =
               Div(input[1].file.naturalWidth, input[k].file.naturalWidth)
          /\ call.imageDrawData[k].scaledHeight =
               Mul(input[k].file.naturalHeight,
                   Div(input[1].file.naturalWidth, input[k].file.naturalWidth))
     /\ call.drawn # <<>> =>
          /\ Len(call.drawn) = Len(input)
          /\ \A k \in 1..Len(input) : call.drawn[k].img = k

C12_ConsumedByIndex ==
  \A c \in Calls :
     /\ calls[c].pc = "loading" =>
          \A i \in 1..Len(calls[c].input) :
             (calls[c].loads[i] = "pending") =
                (\A j \in 1..Len(completions.order[c]) :
                    completions.order[c][j] # i)
     /\ calls[c].imageDrawData # <<>> =>
          /\ \A i \in 1..Len(calls[c].input) : calls[c].loads[i] = "loaded"
          /\ Len(completions.order[c]) = Len(calls[c].input)
          /\ LaidOutByIndex(calls[c])

\* three different images whose decodes completed last, first, second
C12_Witness ==
  \E c \in Calls :
     /\ calls[c].pc = "done"
     /\ Len(calls[c].input) = 3
     /\ completions.order[c] = <<3, 1, 2>>
     /\ calls[c].input[3].file.naturalWidth > calls[c].input[1].file.naturalWidth
     /\ calls[c].input[2].file.naturalHeight > calls[c].input[1].file.naturalHeight
     /\ LaidOutByIndex(calls[c])


\* C17: the list holds exactly the images added and not since removed, each
\* once; a move swaps the image at index with its neighbour in the given
\* direction and nothing else, and does nothing for "up" at index 0 and
\* "down" at the last index.
Ids(imgs) == {imgs[i].id : i \in 1..Len(imgs)}

AddedAndNotRemoved ==
  /\ Ids(images) = (1..(nextId - 1)) \ removedIds
  /\ Cardinality(Ids(images)) = Len(images)

MoveOnlySwaps ==
  \A index \in 0..(MaxImages - 1), direction \in {"up", "down"} :
     MoveImage(index, direction) =>
        LET neighbour == IF direction = "up" THEN index - 1 ELSE index + 1
        IN IF \/ direction = "up" /\ index = 0
              \/ direction = "down" /\ index = Len(images) - 1
           THEN images' = images
           ELSE /\ Len(images') = Len(images)
                /\ images'[index + 1] = images[neighbour + 1]
                /\ images'[neighbour + 1] = images[index + 1]
                /\ \A j \in 1..Len(images) :
                      j \notin {index + 1, neighbour + 1} =>
                         images'[j] = images[j]

C17_ListIntegrity == [](AddedAndNotRemoved) /\ [][MoveOnlySwaps]_vars

\* a list of three out of its upload order, after a removal
C17_Witness ==
  /\ Len(images) = 3
  /\ removedIds # {}
  /\ images[1].id > images[2].id
  /\ images[3].id > images[1].id
  /\ AddedAndNotRemoved


\* C15: handleStitch on a non-empty list sets isProcessing; when the call
\* it started settles, isProcessing is cleared, a failure leaving the result
\* as it was and a success installing the new StitchResult; and, the timer
\* firing and the promise settling, isProcessing always returns to false.
StitchSetsProcessing ==
  (HandleStitch /\ Len(images) > 0) =>
     /\ isProcessing'
     /\ \E c \in Calls : calls[c].pc = "idle" /\ calls'[c].pc = "timer"

SettlesNow(c) ==
  /\ calls[c].via = "app" \/ calls[c].pc = "timer"
  /\ ~Settled(calls[c])
  /\ Settled(calls'[c])

SettlingClearsProcessing ==
  \A c \in Calls :
     SettlesNow(c) =>
        /\ ~isProcessing'
        /\ calls'[c].pc = "rejected" => result' = result
        /\ calls'[c].pc = "done" => result' = calls'[c].result

C15_ProcessingClears ==
  /\ isProcessing ~> ~isProcessing
  /\ [][StitchSetsProcessing]_vars
  /\ [][SettlingClearsProcessing]_vars

\* a stitch has succeeded and a later one has failed: the result on display
\* is still that of the first, and isProcessing is false
C15_Witness ==
  \E b, c \in Calls :
     /\ b < c
     /\ calls[b].via = "app" /\ calls[b].pc = "done"
     /\ calls[c].via = "app" /\ calls[c].pc = "rejected"
     /\ result = calls[b].result
     /\ ~isProcessing

====
